---------------------------- MODULE Spec2Model ----------------------------
(***************************************************************************)
(* Dynamic accumulator (src/src/acc/dynamic_accumulator.rs).               *)
(*                                                                         *)
(* The scalar field Fr is the prime field Z_FieldOrder.  G1, G2 and GT are *)
(* cyclic groups of that same prime order, so every group element is       *)
(* written as its exponent with respect to the group's generator:          *)
(*   g1^a  is the number a,  g2^b  is the number b,  e(g1,g2)^c  is c.     *)
(* Scalar multiplication of a point multiplies the exponent, the pairing   *)
(* e(g1^a, g2^b) = e(g1,g2)^(a*b) multiplies exponents, and the product in *)
(* GT adds them.  Two points are equal iff their exponents are equal.      *)
(***************************************************************************)
EXTENDS Integers, Sequences, FiniteSets, TLC

\* ------------------------------------------------------------------ bounds
\* The i64 inputs handed to the accumulator are 1..NumInputs.
NumInputs == 3

\* ------------------------------------------------- scalar field and groups
\* Order of the scalar field Fr (and of G1, G2, GT): a prime.
FieldOrder == 7

Fr == 0 .. (FieldOrder - 1)

G1 == Fr

G2 == Fr

Inputs == 1 .. NumInputs

\* Option::None of Field::inverse
None == -1

FAdd(a, b) == (a + b) % FieldOrder

FSub(a, b) == (a - b + FieldOrder) % FieldOrder

FMul(a, b) == (a * b) % FieldOrder

\* Fr::neg
FNeg(a) == (FieldOrder - a) % FieldOrder

\* Field::inverse: None for zero, else the multiplicative inverse
inverse(a) ==
    IF a = 0 THEN None
    ELSE CHOOSE b \in 1 .. (FieldOrder - 1) : (a * b) % FieldOrder = 1

\* G1Affine::prime_subgroup_generator, G2Affine::prime_subgroup_generator
G1Generator == 1

G2Generator == 1

\* point.into_projective().mul(k.into_repr()).into_affine()
mul(point, k) == (point * k) % FieldOrder

\* Curve::pairing(p, q): the exponent of e(g1,g2)
pairing(p, q) == (p * q) % FieldOrder

\* product of two GT elements
GtMul(u, v) == (u + v) % FieldOrder

\* G2_POWER.apply(x) = g2^x
G2_POWER_apply(x) == mul(G2Generator, x)

\* digest_to_prime_field(&element.to_digest()): a fixed injective map of the
\* inputs into Fr (a digest followed by a reduction into the field).
DigestMul == 3

DigestAdd == 1

toField(x) == (DigestMul * x + DigestAdd) % FieldOrder

\* -------------------------------------------------- dense polynomials
\* A polynomial is the sequence of its coefficients, lowest degree first,
\* without trailing zeros; the zero polynomial is << >>.
RECURSIVE from_coefficients_vec(_)
from_coefficients_vec(c) ==
    IF c = << >> THEN << >>
    ELSE IF c[Len(c)] = 0 THEN from_coefficients_vec(SubSeq(c, 1, Len(c) - 1))
    ELSE c

is_zero(p) == p = << >>

degree(p) == IF p = << >> THEN 0 ELSE Len(p) - 1

Coef(p, i) == IF (i + 1) \in 1 .. Len(p) THEN p[i + 1] ELSE 0

MaxOf(a, b) == IF a >= b THEN a ELSE b

RECURSIVE ConvSum(_, _, _, _)
ConvSum(p, q, k, j) ==
    IF j < 0 THEN 0
    ELSE FAdd(FMul(Coef(p, j), Coef(q, k - j)), ConvSum(p, q, k, j - 1))

\* &p * &q
PolyMul(p, q) ==
    IF is_zero(p) \/ is_zero(q) THEN << >>
    ELSE from_coefficients_vec(
            [k \in 1 .. (Len(p) + Len(q) - 1) |-> ConvSum(p, q, k - 1, k - 1)])

PolySub(p, q) ==
    from_coefficients_vec(
        [k \in 1 .. MaxOf(Len(p), Len(q)) |-> FSub(Coef(p, k - 1), Coef(q, k - 1))])

PolyAdd(p, q) ==
    from_coefficients_vec(
        [k \in 1 .. MaxOf(Len(p), Len(q)) |-> FAdd(Coef(p, k - 1), Coef(q, k - 1))])

\* c * X^shift
Monomial(c, shift) ==
    from_coefficients_vec([k \in 1 .. (shift + 1) |-> IF k = shift + 1 THEN c ELSE 0])

\* division with remainder, n = q*d + r with r = 0 or deg r < deg d; d # 0
RECURSIVE divide_with_q_and_r(_, _)
divide_with_q_and_r(n, d) ==
    IF Len(n) < Len(d) THEN [q |-> << >>, r |-> n]
    ELSE LET t   == Monomial(FMul(n[Len(n)], inverse(d[Len(d)])), Len(n) - Len(d))
             rec == divide_with_q_and_r(PolySub(n, PolyMul(t, d)), d)
         IN  [q |-> PolyAdd(rec.q, t), r |-> rec.r]

\* the Euclidean loop, carrying the Bezout coefficients: x0*x + y0*y = a
RECURSIVE XgcdLoop(_, _, _, _, _, _)
XgcdLoop(a, b, x0, x1, y0, y1) ==
    IF is_zero(b) THEN [gcd |-> a, a_poly |-> x0, b_poly |-> y0]
    ELSE LET qr == divide_with_q_and_r(a, b)
         IN  XgcdLoop(b, qr.r,
                      x1, PolySub(x0, PolyMul(qr.q, x1)),
                      y1, PolySub(y0, PolyMul(qr.q, y1)))

\* xgcd(x, y) = Some((g, u, v)) with u*x + v*y = g; None when both are zero
xgcd(x, y) ==
    IF is_zero(x) /\ is_zero(y) THEN [some |-> FALSE]
    ELSE [some |-> TRUE] @@ XgcdLoop(x, y, <<1>>, << >>, << >>, <<1>>)

\* p.evaluate(&point), by Horner's rule
RECURSIVE evaluate(_, _)
evaluate(p, point) ==
    IF p = << >> THEN 0
    ELSE FAdd(p[1], FMul(point, evaluate(SubSeq(p, 2, Len(p)), point)))

\* the Bezout coefficients left as xgcd returned them, not divided by the gcd
Scale_skipped(p, k) == p

\* coeffs.iter().map(|c| *c * k).collect() into from_coefficients_vec
Scale(p, k) == from_coefficients_vec([i \in 1 .. Len(p) |-> FMul(p[i], k)])

\* P(X) = product over the element set of (X - e)
RECURSIVE p_poly(_)
p_poly(S) ==
    IF S = {} THEN <<1>>
    ELSE LET e == CHOOSE v \in S : TRUE
         IN  PolyMul(p_poly(S \ {e}), from_coefficients_vec(<<FNeg(e), 1>>))

\* PRI_S: the secret scalar of the trusted setup.  acc_value, elements: the
\* accumulator under operation.  last: the record of its most recent call.
\* other: a second accumulator of the same setup, with the note whether a
\* delete has ever succeeded on it.  A call on the second accumulator is
\* recorded in last with acc0 and elems0 taken from the second accumulator.
VARIABLES PRI_S, acc_value, elements, last, other

vars == <<PRI_S, acc_value, elements, last, other>>

\* ------------------------------------------------------------ proof types
NoTransition == [old_acc_value |-> 0, new_acc_value |-> 0, element |-> 0]

NoMembership == [witness |-> 0, element |-> 0]

NoNonMembership == [element |-> 0, witness |-> 0, g1_a |-> 0]

\* AddProof::verify: e(new_acc, g2) == e(old_acc, g2^(s-element))
AddProof_verify(proof) ==
    LET s_minus_elem    == FSub(PRI_S, proof.element)
        g2_s_minus_elem == G2_POWER_apply(s_minus_elem)
        lhs == pairing(proof.new_acc_value, G2Generator)
        rhs == pairing(proof.old_acc_value, g2_s_minus_elem)
    IN  lhs = rhs

\* DeleteProof::verify: e(new_acc, g2^(s-element)) == e(old_acc, g2)
DeleteProof_verify(proof) ==
    LET s_minus_elem    == FSub(PRI_S, proof.element)
        g2_s_minus_elem == G2_POWER_apply(s_minus_elem)
        lhs == pairing(proof.new_acc_value, g2_s_minus_elem)
        rhs == pairing(proof.old_acc_value, G2Generator)
    IN  lhs = rhs

\* MembershipProof::verify pairing the witness with g2^s: the element of the
\* proof is never read.
MembershipProof_verify_no_element(proof, accumulator) ==
    LET g2_s == G2_POWER_apply(PRI_S)
        lhs  == pairing(proof.witness, g2_s)
        rhs  == pairing(accumulator, G2Generator)
    IN  lhs = rhs

\* MembershipProof::verify: e(witness, g2^(s-element)) == e(accumulator, g2)
MembershipProof_verify(proof, accumulator) ==
    LET s_minus_elem    == FSub(PRI_S, proof.element)
        g2_s_minus_elem == G2_POWER_apply(s_minus_elem)
        lhs == pairing(proof.witness, g2_s_minus_elem)
        rhs == pairing(accumulator, G2Generator)
    IN  lhs = rhs

\* ------------------------------------------------- DynamicAccumulator
\* self is [acc_value, elements]; a call returns [ok, err, self, ...].
new == [acc_value |-> mul(G1Generator, 1), elements |-> {}]

\* add inserting the element without updating acc_value
add_keeps_acc(self, element) ==
    LET fr_element == toField(element)
    IN  IF fr_element \in self.elements
        THEN [ok |-> FALSE, err |-> "Element already in accumulator",
              self |-> self, proof |-> NoTransition]
        ELSE LET old_acc      == self.acc_value
                 s_minus_elem == FSub(PRI_S, fr_element)
                 new_acc      == mul(self.acc_value, s_minus_elem)
             IN  [ok |-> TRUE, err |-> "",
                  self |-> [acc_value |-> old_acc,
                            elements  |-> self.elements \cup {fr_element}],
                  proof |-> [old_acc_value |-> old_acc,
                             new_acc_value |-> new_acc,
                             element       |-> fr_element]]

\* add updating acc_value before it looks for a duplicate
add_before_check(self, element) ==
    LET fr_element   == toField(element)
        old_acc      == self.acc_value
        s_minus_elem == FSub(PRI_S, fr_element)
        new_acc      == mul(self.acc_value, s_minus_elem)
    IN  IF fr_element \in self.elements
        THEN [ok |-> FALSE, err |-> "Element already in accumulator",
              self |-> [self EXCEPT !.acc_value = new_acc],
              proof |-> NoTransition]
        ELSE [ok |-> TRUE, err |-> "",
              self |-> [acc_value |-> new_acc,
                        elements  |-> self.elements \cup {fr_element}],
              proof |-> [old_acc_value |-> old_acc,
                         new_acc_value |-> new_acc,
                         element       |-> fr_element]]

\* add reading old_acc after the update: the proof's old and new values agree
add_old_acc_late(self, element) ==
    LET fr_element == toField(element)
    IN  IF fr_element \in self.elements
        THEN [ok |-> FALSE, err |-> "Element already in accumulator",
              self |-> self, proof |-> NoTransition]
        ELSE LET s_minus_elem == FSub(PRI_S, fr_element)
                 new_acc      == mul(self.acc_value, s_minus_elem)
             IN  [ok |-> TRUE, err |-> "",
                  self |-> [acc_value |-> new_acc,
                            elements  |-> self.elements \cup {fr_element}],
                  proof |-> [old_acc_value |-> new_acc,
                             new_acc_value |-> new_acc,
                             element       |-> fr_element]]

add(self, element) ==
    LET fr_element == toField(element)
    IN  IF fr_element \in self.elements
        THEN [ok |-> FALSE, err |-> "Element already in accumulator",
              self |-> self, proof |-> NoTransition]
        ELSE LET old_acc      == self.acc_value
                 s_minus_elem == FSub(PRI_S, fr_element)
                 new_acc      == mul(self.acc_value, s_minus_elem)
             IN  [ok |-> TRUE, err |-> "",
                  self |-> [acc_value |-> new_acc,
                            elements  |-> self.elements \cup {fr_element}],
                  proof |-> [old_acc_value |-> old_acc,
                             new_acc_value |-> new_acc,
                             element       |-> fr_element]]

\* delete multiplying by (s - element) itself, not by its inverse
delete_no_inverse(self, element) ==
    LET fr_element == toField(element)
        old_acc    == self.acc_value
    IN  IF fr_element \notin self.elements
        THEN [ok |-> FALSE, err |-> "Element not in accumulator",
              self |-> self, proof |-> NoTransition]
        ELSE LET s_minus_elem == FSub(PRI_S, fr_element)
             IN  IF inverse(s_minus_elem) = None
                 THEN [ok |-> FALSE, err |-> "Failed to compute inverse",
                       self |-> self, proof |-> NoTransition]
                 ELSE LET new_acc == mul(self.acc_value, s_minus_elem)
                      IN  [ok |-> TRUE, err |-> "",
                           self |-> [acc_value |-> new_acc,
                                     elements  |-> self.elements \ {fr_element}],
                           proof |-> [old_acc_value |-> old_acc,
                                      new_acc_value |-> new_acc,
                                      element       |-> fr_element]]

\* delete removing the element from the set and leaving acc_value as it was
delete_keeps_acc(self, element) ==
    LET fr_element == toField(element)
        old_acc    == self.acc_value
    IN  IF fr_element \notin self.elements
        THEN [ok |-> FALSE, err |-> "Element not in accumulator",
              self |-> self, proof |-> NoTransition]
        ELSE IF inverse(FSub(PRI_S, fr_element)) = None
             THEN [ok |-> FALSE, err |-> "Failed to compute inverse",
                   self |-> self, proof |-> NoTransition]
             ELSE [ok |-> TRUE, err |-> "",
                   self |-> [acc_value |-> old_acc,
                             elements  |-> self.elements \ {fr_element}],
                   proof |-> [old_acc_value |-> old_acc,
                              new_acc_value |-> old_acc,
                              element       |-> fr_element]]

\* delete taking the element out of the set before it computes the inverse
delete_removes_first(self, element) ==
    LET fr_element == toField(element)
        old_acc    == self.acc_value
    IN  IF fr_element \notin self.elements
        THEN [ok |-> FALSE, err |-> "Element not in accumulator",
              self |-> self, proof |-> NoTransition]
        ELSE LET s_minus_elem     == FSub(PRI_S, fr_element)
                 s_minus_elem_inv == inverse(s_minus_elem)
                 removed          == [self EXCEPT
                                        !.elements = @ \ {fr_element}]
             IN  IF s_minus_elem_inv = None
                 THEN [ok |-> FALSE, err |-> "Failed to compute inverse",
                       self |-> removed, proof |-> NoTransition]
                 ELSE LET new_acc == mul(self.acc_value, s_minus_elem_inv)
                      IN  [ok |-> TRUE, err |-> "",
                           self |-> [removed EXCEPT !.acc_value = new_acc],
                           proof |-> [old_acc_value |-> old_acc,
                                      new_acc_value |-> new_acc,
                                      element       |-> fr_element]]

\* delete updating acc_value before it looks the element up
delete_before_check(self, element) ==
    LET fr_element       == toField(element)
        old_acc          == self.acc_value
        s_minus_elem     == FSub(PRI_S, fr_element)
        s_minus_elem_inv == inverse(s_minus_elem)
        new_acc          == IF s_minus_elem_inv = None THEN old_acc
                            ELSE mul(self.acc_value, s_minus_elem_inv)
    IN  IF fr_element \notin self.elements
        THEN [ok |-> FALSE, err |-> "Element not in accumulator",
              self |-> [self EXCEPT !.acc_value = new_acc],
              proof |-> NoTransition]
        ELSE IF s_minus_elem_inv = None
             THEN [ok |-> FALSE, err |-> "Failed to compute inverse",
                   self |-> self, proof |-> NoTransition]
             ELSE [ok |-> TRUE, err |-> "",
                   self |-> [acc_value |-> new_acc,
                             elements  |-> self.elements \ {fr_element}],
                   proof |-> [old_acc_value |-> old_acc,
                              new_acc_value |-> new_acc,
                              element       |-> fr_element]]

delete(self, element) ==
    LET fr_element == toField(element)
        old_acc    == self.acc_value
    IN  IF fr_element \notin self.elements
        THEN [ok |-> FALSE, err |-> "Element not in accumulator",
              self |-> self, proof |-> NoTransition]
        ELSE LET s_minus_elem     == FSub(PRI_S, fr_element)
                 s_minus_elem_inv == inverse(s_minus_elem)
             IN  IF s_minus_elem_inv = None
                 THEN [ok |-> FALSE, err |-> "Failed to compute inverse",
                       self |-> self, proof |-> NoTransition]
                 ELSE LET new_acc == mul(self.acc_value, s_minus_elem_inv)
                      IN  [ok |-> TRUE, err |-> "",
                           self |-> [acc_value |-> new_acc,
                                     elements  |-> self.elements \ {fr_element}],
                           proof |-> [old_acc_value |-> old_acc,
                                      new_acc_value |-> new_acc,
                                      element       |-> fr_element]]

\* update running its add although the delete failed
update_add_after_failed_delete(self, old_element, new_element) ==
    LET d == delete(self, old_element)
        a == add(d.self, new_element)
    IN  IF ~d.ok
        THEN [ok |-> FALSE, err |-> d.err, self |-> a.self,
              delete_proof |-> NoTransition, add_proof |-> NoTransition]
        ELSE IF ~a.ok
             THEN [ok |-> FALSE, err |-> a.err, self |-> a.self,
                   delete_proof |-> NoTransition, add_proof |-> NoTransition]
             ELSE [ok |-> TRUE, err |-> "", self |-> a.self,
                   delete_proof |-> d.proof, add_proof |-> a.proof]

\* update running its add on the accumulator as it was before the delete
update_add_on_original(self, old_element, new_element) ==
    LET d == delete(self, old_element)
    IN  IF ~d.ok
        THEN [ok |-> FALSE, err |-> d.err, self |-> d.self,
              delete_proof |-> NoTransition, add_proof |-> NoTransition]
        ELSE LET a == add(self, new_element)
             IN  IF ~a.ok
                 THEN [ok |-> FALSE, err |-> a.err, self |-> d.self,
                       delete_proof |-> NoTransition, add_proof |-> NoTransition]
                 ELSE [ok |-> TRUE, err |-> "", self |-> a.self,
                       delete_proof |-> d.proof, add_proof |-> a.proof]

\* update that puts the accumulator back when the add fails
update_atomic(self, old_element, new_element) ==
    LET d == delete(self, old_element)
    IN  IF ~d.ok
        THEN [ok |-> FALSE, err |-> d.err, self |-> d.self,
              delete_proof |-> NoTransition, add_proof |-> NoTransition]
        ELSE LET a == add(d.self, new_element)
             IN  IF ~a.ok
                 THEN [ok |-> FALSE, err |-> a.err, self |-> self,
                       delete_proof |-> NoTransition, add_proof |-> NoTransition]
                 ELSE [ok |-> TRUE, err |-> "", self |-> a.self,
                       delete_proof |-> d.proof, add_proof |-> a.proof]

\* delete(old_element)? then add(new_element)?: an Err of the add is
\* returned with the accumulator as the delete left it.
update(self, old_element, new_element) ==
    LET d == delete(self, old_element)
    IN  IF ~d.ok
        THEN [ok |-> FALSE, err |-> d.err, self |-> d.self,
              delete_proof |-> NoTransition, add_proof |-> NoTransition]
        ELSE LET a == add(d.self, new_element)
             IN  IF ~a.ok
                 THEN [ok |-> FALSE, err |-> a.err, self |-> a.self,
                       delete_proof |-> NoTransition, add_proof |-> NoTransition]
                 ELSE [ok |-> TRUE, err |-> "", self |-> a.self,
                       delete_proof |-> d.proof, add_proof |-> a.proof]

\* prove_membership handing out acc_value itself as the witness
prove_membership_no_inverse(self, element) ==
    LET fr_element == toField(element)
    IN  IF fr_element \notin self.elements
        THEN [ok |-> FALSE,
              err |-> "Cannot prove membership for an element not in the set",
              proof |-> NoMembership]
        ELSE IF inverse(FSub(PRI_S, fr_element)) = None
             THEN [ok |-> FALSE, err |-> "Failed to compute inverse",
                   proof |-> NoMembership]
             ELSE [ok |-> TRUE, err |-> "",
                   proof |-> [witness |-> self.acc_value, element |-> fr_element]]

prove_membership(self, element) ==
    LET fr_element == toField(element)
    IN  IF fr_element \notin self.elements
        THEN [ok |-> FALSE,
              err |-> "Cannot prove membership for an element not in the set",
              proof |-> NoMembership]
        ELSE LET s_minus_elem     == FSub(PRI_S, fr_element)
                 s_minus_elem_inv == inverse(s_minus_elem)
             IN  IF s_minus_elem_inv = None
                 THEN [ok |-> FALSE, err |-> "Failed to compute inverse",
                       proof |-> NoMembership]
                 ELSE [ok |-> TRUE, err |-> "",
                       proof |-> [witness |-> mul(self.acc_value, s_minus_elem_inv),
                                  element |-> fr_element]]

verify_membership(self, proof) == MembershipProof_verify(proof, self.acc_value)

prove_non_membership(self, element) ==
    LET fr_element == toField(element)
    IN  IF fr_element \in self.elements
        THEN [ok |-> FALSE,
              err |-> "Cannot prove non-membership for an element in the set",
              proof |-> NoNonMembership]
        ELSE LET P == p_poly(self.elements)
                 Q == from_coefficients_vec(<<FNeg(fr_element), 1>>)
                 r == xgcd(Q, P)
             IN  IF r.some /\ ~is_zero(r.gcd) /\ degree(r.gcd) = 0
                 THEN LET gcd_val     == r.gcd[1]
                          gcd_inv     == inverse(gcd_val)
                          a_poly_norm == Scale(r.a_poly, gcd_inv)
                          b_poly_norm == Scale(r.b_poly, gcd_inv)
                          a_s         == evaluate(a_poly_norm, PRI_S)
                          b_s         == evaluate(b_poly_norm, PRI_S)
                      IN  [ok |-> TRUE, err |-> "",
                           proof |-> [element |-> fr_element,
                                      witness |-> mul(G2Generator, b_s),
                                      g1_a    |-> mul(G1Generator, a_s)]]
                 ELSE [ok |-> FALSE, err |-> "Failed to create non-membership proof",
                       proof |-> NoNonMembership]

\* verify_non_membership pairing g1_a with g2^s: the element of the proof is
\* never read.
verify_non_membership_no_element(self, proof) ==
    LET g2_s == G2_POWER_apply(PRI_S)
        lhs1 == pairing(self.acc_value, proof.witness)
        lhs2 == pairing(proof.g1_a, g2_s)
        rhs  == pairing(G1Generator, G2Generator)
    IN  GtMul(lhs1, lhs2) = rhs

\* e(Acc, witness) * e(g1_a, g2^(s-x)) == e(g1, g2)
verify_non_membership(self, proof) ==
    LET s_minus_x    == FSub(PRI_S, proof.element)
        g2_s_minus_x == G2_POWER_apply(s_minus_x)
        lhs1 == pairing(self.acc_value, proof.witness)
        lhs2 == pairing(proof.g1_a, g2_s_minus_x)
        rhs  == pairing(G1Generator, G2Generator)
    IN  GtMul(lhs1, lhs2) = rhs

\* query: the variant follows the set; each branch unwraps its proof, and an
\* unwrap of an Err panics.
query(self, element) ==
    LET fr_element == toField(element)
    IN  IF fr_element \in self.elements
        THEN LET r == prove_membership(self, element)
             IN  [panic |-> ~r.ok, variant |-> "Membership",
                  mproof |-> r.proof, nproof |-> NoNonMembership]
        ELSE LET r == prove_non_membership(self, element)
             IN  [panic |-> ~r.ok, variant |-> "NonMembership",
                  mproof |-> NoMembership, nproof |-> r.proof]

\* ------------------------------------- proofs relating two accumulators
\* IntersectionProof: g1^u(s) and g2^v(s) of the Bezout relation
\* u*Q1 + v*Q2 = 1, with Q1(s) and Q2(s) projected into the groups.
NoIntersection ==
    [g1_u |-> 0, g2_v |-> 0, g2_q1 |-> 0, g2_q2 |-> 0, g1_q2 |-> 0]

\* UnionProof: the intersection's accumulator value and its proof, whose
\* g2^Q2(s) and g2^Q1(s) are the witnesses of S1 in U and of S2 in U.
NoUnion == [intersection_acc |-> 0, intersection |-> NoIntersection]

NoRelation ==
    [acc |-> [acc_value |-> 0, elements |-> {}],
     intersection |-> NoIntersection, union |-> NoUnion, accepted |-> FALSE]

\* prove_intersection: I = S1 \cap S2, acc_I = g1^P_I(s), Q1 = P_S1 / P_I,
\* Q2 = P_S2 / P_I, (g, u, v) = xgcd(Q1, Q2), failing when deg g > 0.
prove_intersection(self, other_acc) ==
    LET I   == {e \in self.elements : e \in other_acc.elements}
        P_I == p_poly(I)
        Q1  == divide_with_q_and_r(p_poly(self.elements), P_I).q
        Q2  == divide_with_q_and_r(p_poly(other_acc.elements), P_I).q
        r   == xgcd(Q1, Q2)
    IN  IF r.some /\ ~is_zero(r.gcd) /\ degree(r.gcd) = 0
        THEN LET gcd_inv == inverse(r.gcd[1])
                 u       == Scale(r.a_poly, gcd_inv)
                 v       == Scale(r.b_poly, gcd_inv)
                 q1_s    == evaluate(Q1, PRI_S)
                 q2_s    == evaluate(Q2, PRI_S)
             IN  [ok |-> TRUE, err |-> "",
                  acc |-> [acc_value |-> mul(G1Generator, evaluate(P_I, PRI_S)),
                           elements  |-> I],
                  proof |-> [g1_u  |-> mul(G1Generator, evaluate(u, PRI_S)),
                             g2_v  |-> mul(G2Generator, evaluate(v, PRI_S)),
                             g2_q1 |-> G2_POWER_apply(q1_s),
                             g2_q2 |-> G2_POWER_apply(q2_s),
                             g1_q2 |-> mul(G1Generator, q2_s)]]
        ELSE [ok |-> FALSE, err |-> "Failed to create intersection proof",
              acc |-> NoRelation.acc, proof |-> NoIntersection]

\* verify_intersection: (i) e(acc_I, g2^Q1(s)) == e(A1, g2) and
\* e(acc_I, g2^Q2(s)) == e(A2, g2); (ii) the Bezout relation
\* e(g1^u(s), g2^Q1(s)) * e(g1^Q2(s), g2^v(s)) == e(g1, g2), with the two
\* projections of Q2(s) agreeing.
verify_intersection(acc1_value, acc2_value, intersection_value, proof) ==
    /\ pairing(intersection_value, proof.g2_q1) = pairing(acc1_value, G2Generator)
    /\ pairing(intersection_value, proof.g2_q2) = pairing(acc2_value, G2Generator)
    /\ pairing(proof.g1_q2, G2Generator) = pairing(G1Generator, proof.g2_q2)
    /\ GtMul(pairing(proof.g1_u, proof.g2_q1), pairing(proof.g1_q2, proof.g2_v))
           = pairing(G1Generator, G2Generator)

\* prove_union: U = S1 \cup S2 = S1 + (S2 \ I), acc_U = g1^P_U(s), with the
\* intersection bound by its own proof.
prove_union(self, other_acc) ==
    LET U == self.elements \cup other_acc.elements
        i == prove_intersection(self, other_acc)
    IN  IF i.ok
        THEN [ok |-> TRUE, err |-> "",
              acc |-> [acc_value |-> mul(G1Generator, evaluate(p_poly(U), PRI_S)),
                       elements  |-> U],
              proof |-> [intersection_acc |-> i.acc.acc_value,
                         intersection     |-> i.proof]]
        ELSE [ok |-> FALSE, err |-> i.err,
              acc |-> NoRelation.acc, proof |-> NoUnion]

\* verify_union: the intersection proof holds, S1 is in U with complement
\* S2 \ I, e(acc_U, g2) == e(A1, g2^Q2(s)), and S2 is in U with complement
\* S1 \ I, e(acc_U, g2) == e(A2, g2^Q1(s)).
verify_union(acc1_value, acc2_value, union_value, proof) ==
    /\ verify_intersection(acc1_value, acc2_value,
                           proof.intersection_acc, proof.intersection)
    /\ pairing(union_value, G2Generator)
           = pairing(acc1_value, proof.intersection.g2_q2)
    /\ pairing(union_value, G2Generator)
           = pairing(acc2_value, proof.intersection.g2_q1)

\* ---------------------------------------------------------- the state
\* The accumulator under operation.
Self == [acc_value |-> acc_value, elements |-> elements]

\* What a call record keeps of the call before it.
NoPrior ==
    [op |-> "", acc0 |-> 0, elems0 |-> {},
     mproof |-> NoMembership, nproof |-> NoNonMembership]

\* The sequences of two calls on the same input that the scenarios of the
\* test suite are made of: add then delete, a proof then the mutation that
\* makes it stale.
Sequels ==
    { <<"add", "delete">>,
      <<"prove_membership", "delete">>,
      <<"prove_non_membership", "add">> }

\* The call before a call op(x), when it succeeded on the same input and
\* op is its sequel: the accumulator it started from and the proof it issued.
Prior(op, x) ==
    IF last.ok /\ last.x = x /\ <<last.op, op>> \in Sequels
    THEN [op |-> last.op, acc0 |-> last.acc0, elems0 |-> last.elems0,
          mproof |-> last.mproof, nproof |-> last.nproof]
    ELSE NoPrior

\* The record of the most recent call: its name, inputs, outcome, the
\* accumulator before it, what it returned, and the call before it.
Call(op, x, y, ok, err) ==
    [op |-> op, x |-> x, y |-> y, ok |-> ok, err |-> err,
     acc0 |-> acc_value, elems0 |-> elements, variant |-> "",
     aproof |-> NoTransition, dproof |-> NoTransition,
     mproof |-> NoMembership, nproof |-> NoNonMembership,
     rel |-> NoRelation, prior |-> Prior(op, x)]

Init ==
    /\ PRI_S \in Fr
    /\ acc_value = new.acc_value
    /\ elements = new.elements
    /\ last = [op |-> "new", x |-> 0, y |-> 0, ok |-> TRUE, err |-> "",
               acc0 |-> new.acc_value, elems0 |-> new.elements, variant |-> "",
               aproof |-> NoTransition, dproof |-> NoTransition,
               mproof |-> NoMembership, nproof |-> NoNonMembership,
               rel |-> NoRelation, prior |-> NoPrior]
    /\ other = [acc_value |-> new.acc_value, elements |-> new.elements,
                removed |-> FALSE]

Add(x) ==
    LET r == add(Self, x)
    IN  /\ acc_value' = r.self.acc_value
        /\ elements' = r.self.elements
        /\ last' = [Call("add", x, 0, r.ok, r.err) EXCEPT !.aproof = r.proof]
        /\ UNCHANGED <<PRI_S, other>>

Delete(x) ==
    LET r == delete(Self, x)
    IN  /\ acc_value' = r.self.acc_value
        /\ elements' = r.self.elements
        /\ last' = [Call("delete", x, 0, r.ok, r.err) EXCEPT !.dproof = r.proof]
        /\ UNCHANGED <<PRI_S, other>>

Update(x, y) ==
    LET r == update(Self, x, y)
    IN  /\ acc_value' = r.self.acc_value
        /\ elements' = r.self.elements
        /\ last' = [Call("update", x, y, r.ok, r.err)
                        EXCEPT !.dproof = r.delete_proof, !.aproof = r.add_proof]
        /\ UNCHANGED <<PRI_S, other>>

ProveMembership(x) ==
    LET r == prove_membership(Self, x)
    IN  /\ last' = [Call("prove_membership", x, 0, r.ok, r.err)
                        EXCEPT !.mproof = r.proof]
        /\ UNCHANGED <<PRI_S, acc_value, elements, other>>

ProveNonMembership(x) ==
    LET r == prove_non_membership(Self, x)
    IN  /\ last' = [Call("prove_non_membership", x, 0, r.ok, r.err)
                        EXCEPT !.nproof = r.proof]
        /\ UNCHANGED <<PRI_S, acc_value, elements, other>>

\* A caller takes the proof the accumulator issues for x, sets its element
\* field to some e (e = toField(x) leaves the proof as issued) and hands it
\* to verify_membership.
VerifyMembership(x) ==
    LET r == prove_membership(Self, x)
    IN  /\ r.ok
        /\ \E e \in Fr :
             LET proof == [r.proof EXCEPT !.element = e]
             IN  last' = [Call("verify_membership", x, 0,
                               verify_membership(Self, proof), "")
                              EXCEPT !.mproof = proof]
        /\ UNCHANGED <<PRI_S, acc_value, elements, other>>

\* The same for a non-membership proof and verify_non_membership.
VerifyNonMembership(x) ==
    LET r == prove_non_membership(Self, x)
    IN  /\ r.ok
        /\ \E e \in Fr :
             LET proof == [r.proof EXCEPT !.element = e]
             IN  last' = [Call("verify_non_membership", x, 0,
                               verify_non_membership(Self, proof), "")
                              EXCEPT !.nproof = proof]
        /\ UNCHANGED <<PRI_S, acc_value, elements, other>>

Query(x) ==
    LET r == query(Self, x)
    IN  /\ last' = [Call("query", x, 0, ~r.panic,
                         IF r.panic THEN "panic: unwrap on an Err value" ELSE "")
                        EXCEPT !.variant = r.variant,
                               !.mproof = r.mproof, !.nproof = r.nproof]
        /\ UNCHANGED <<PRI_S, acc_value, elements, other>>

Next ==
    \/ \E x \in Inputs : Add(x)
    \/ \E x \in Inputs : Delete(x)
    \/ \E x \in Inputs, y \in Inputs : Update(x, y)
    \/ \E x \in Inputs : ProveMembership(x)
    \/ \E x \in Inputs : ProveNonMembership(x)
    \/ \E x \in Inputs : VerifyMembership(x)
    \/ \E x \in Inputs : VerifyNonMembership(x)
    \/ \E x \in Inputs : Query(x)

Spec == Init /\ [][Next]_vars

\* ------------------------------------------------- two accumulators
\* The second accumulator as the operations take it.
OtherSelf == [acc_value |-> other.acc_value, elements |-> other.elements]

OtherAdd(x) ==
    LET r == add(OtherSelf, x)
    IN  /\ other' = [acc_value |-> r.self.acc_value,
                     elements  |-> r.self.elements,
                     removed   |-> other.removed]
        /\ last' = [Call("other_add", x, 0, r.ok, r.err)
                        EXCEPT !.acc0 = other.acc_value,
                               !.elems0 = other.elements]
        /\ UNCHANGED <<PRI_S, acc_value, elements>>

OtherDelete(x) ==
    LET r == delete(OtherSelf, x)
    IN  /\ other' = [acc_value |-> r.self.acc_value,
                     elements  |-> r.self.elements,
                     removed   |-> other.removed \/ r.ok]
        /\ last' = [Call("other_delete", x, 0, r.ok, r.err)
                        EXCEPT !.acc0 = other.acc_value,
                               !.elems0 = other.elements]
        /\ UNCHANGED <<PRI_S, acc_value, elements>>

OtherUpdate(x, y) ==
    LET r == update(OtherSelf, x, y)
    IN  /\ other' = [acc_value |-> r.self.acc_value,
                     elements  |-> r.self.elements,
                     removed   |-> other.removed \/ delete(OtherSelf, x).ok]
        /\ last' = [Call("other_update", x, y, r.ok, r.err)
                        EXCEPT !.acc0 = other.acc_value,
                               !.elems0 = other.elements]
        /\ UNCHANGED <<PRI_S, acc_value, elements>>

\* The proof the first accumulator issues for x, handed to the second
\* accumulator's verify_membership.
VerifyMembershipOther(x) ==
    LET r == prove_membership(Self, x)
    IN  /\ r.ok
        /\ last' = [Call("verify_membership_other", x, 0,
                         verify_membership(OtherSelf, r.proof), "")
                        EXCEPT !.mproof = r.proof,
                               !.acc0 = other.acc_value,
                               !.elems0 = other.elements]
        /\ UNCHANGED <<PRI_S, acc_value, elements, other>>

\* The first accumulator is built by add alone, the second by any sequence
\* of add, delete and update.
NextTwo ==
    \/ \E x \in Inputs : Add(x)
    \/ \E x \in Inputs : ProveMembership(x)
    \/ \E x \in Inputs : VerifyMembershipOther(x)
    \/ \E x \in Inputs : OtherAdd(x)
    \/ \E x \in Inputs : OtherDelete(x)
    \/ \E x \in Inputs, y \in Inputs : OtherUpdate(x, y)

SpecTwo == Init /\ [][NextTwo]_vars

\* prove_intersection of the two accumulators, and the static verifier on
\* what it returned.
ProveIntersection ==
    LET r == prove_intersection(Self, OtherSelf)
    IN  /\ last' = [Call("prove_intersection", 0, 0, r.ok, r.err)
                        EXCEPT !.rel = [acc          |-> r.acc,
                                        intersection |-> r.proof,
                                        union        |-> NoUnion,
                                        accepted     |->
                                            /\ r.ok
                                            /\ verify_intersection(
                                                   acc_value, other.acc_value,
                                                   r.acc.acc_value, r.proof)]]
        /\ UNCHANGED <<PRI_S, acc_value, elements, other>>

\* prove_union of the two accumulators, and the static verifier on what it
\* returned.
ProveUnion ==
    LET r == prove_union(Self, OtherSelf)
    IN  /\ last' = [Call("prove_union", 0, 0, r.ok, r.err)
                        EXCEPT !.rel = [acc          |-> r.acc,
                                        intersection |-> NoIntersection,
                                        union        |-> r.proof,
                                        accepted     |->
                                            /\ r.ok
                                            /\ verify_union(
                                                   acc_value, other.acc_value,
                                                   r.acc.acc_value, r.proof)]]
        /\ UNCHANGED <<PRI_S, acc_value, elements, other>>

\* Two accumulators built by add, and the proofs relating them.
NextRel ==
    \/ \E x \in Inputs : Add(x)
    \/ \E x \in Inputs : OtherAdd(x)
    \/ ProveIntersection
    \/ ProveUnion

SpecRel == Init /\ [][NextRel]_vars

\* ------------------------------------------------------------- claims
Fx == toField(last.x)

\* g1^(product of (s - e) over e in S): the commitment to S from first principles
RECURSIVE ExponentOf(_)
ExponentOf(S) ==
    IF S = {} THEN 1
    ELSE LET e == CHOOSE v \in S : TRUE
         IN  FMul(FSub(PRI_S, e), ExponentOf(S \ {e}))

Commit(S) == mul(G1Generator, ExponentOf(S))

\* the identity of G1 (the point at infinity), g1^0
G1Identity == mul(G1Generator, 0)

TypeOK ==
    /\ PRI_S \in Fr
    /\ acc_value \in G1
    /\ elements \subseteq {toField(x) : x \in Inputs}

\* C1: after any sequence of add and delete calls, failed ones included,
\* acc_value is g1 raised to the product of (s - e) over the current set.
C1_Commitment == acc_value = Commit(elements)

\* C1 witness: a delete has just succeeded and left a non-empty set, after
\* some call failed earlier or not.
C1_Witness ==
    /\ last.op = "delete" /\ last.ok
    /\ Cardinality(elements) >= 1

\* C1 witness of a failed call leaving the commitment in place
C1_WitnessFailed ==
    /\ last.op \in {"add", "delete"} /\ ~last.ok
    /\ Cardinality(elements) >= 2

C3_NonMembership ==
    last.op = "prove_non_membership" =>
        /\ last.ok <=> (Fx \notin elements)
        /\ last.ok => verify_non_membership(Self, last.nproof)

C3_Witness ==
    /\ last.op = "prove_non_membership" /\ last.ok
    /\ Cardinality(elements) >= 2

\* C4 as stated: add(x) for x not in S, then delete(x), leaves acc_value and
\* S as they were before the add.
C4_Original ==
    (last.op = "delete" /\ last.prior.op = "add") =>
        /\ acc_value = last.prior.acc0
        /\ elements = last.prior.elems0

\* C4 amended: add(x) for x not in S with toField(x) # s, then delete(x): the
\* delete succeeds and leaves acc_value and S as they were before the add.
C4_AddDelete ==
    (last.op = "delete" /\ last.prior.op = "add" /\ Fx # PRI_S) =>
        /\ last.ok
        /\ acc_value = last.prior.acc0
        /\ elements = last.prior.elems0

C4_Witness ==
    /\ last.op = "delete" /\ last.ok /\ last.prior.op = "add"
    /\ last.prior.elems0 # {}
    /\ acc_value # G1Identity

\* C5: the AddProof of a successful add, the DeleteProof of a successful
\* delete and both proofs of a successful update pass their own verify().
C5_TransitionProofs ==
    /\ (last.op = "add" /\ last.ok) => AddProof_verify(last.aproof)
    /\ (last.op = "delete" /\ last.ok) => DeleteProof_verify(last.dproof)
    /\ (last.op = "update" /\ last.ok) =>
            /\ DeleteProof_verify(last.dproof)
            /\ AddProof_verify(last.aproof)

C5_Witness ==
    /\ last.op = "update" /\ last.ok
    /\ last.aproof.old_acc_value # G1Identity
    /\ last.aproof.element # last.dproof.element

\* C6 as stated: a membership proof issued for x is rejected against the
\* acc_value that the following successful delete(x) leaves.
C6_Original ==
    (last.op = "delete" /\ last.ok /\ last.prior.op = "prove_membership") =>
        ~verify_membership(Self, last.prior.mproof)

\* C6 amended: the same, when no member's field value is s (acc_value is
\* not the identity) and s - toField(x) # 1.
C6_StaleRejected ==
    (/\ last.op = "delete" /\ last.ok /\ last.prior.op = "prove_membership"
     /\ PRI_S \notin last.elems0
     /\ FSub(PRI_S, Fx) # 1) =>
        ~verify_membership(Self, last.prior.mproof)

C6_Witness ==
    /\ last.op = "delete" /\ last.ok /\ last.prior.op = "prove_membership"
    /\ PRI_S \notin last.elems0
    /\ FSub(PRI_S, Fx) # 1
    /\ Cardinality(last.elems0) >= 2

\* C7 as stated: a membership proof the accumulator issues, with its element
\* replaced by a different field element, is rejected by verify_membership.
C7_Original ==
    (last.op = "verify_membership" /\ last.mproof.element # Fx) => ~last.ok

\* C7 amended: the same, when no member's field value is s (the witness is
\* not the identity).
C7_Tamper ==
    (/\ last.op = "verify_membership" /\ last.mproof.element # Fx
     /\ PRI_S \notin elements) =>
        ~last.ok

C7_Witness ==
    /\ last.op = "verify_membership" /\ last.mproof.element # Fx
    /\ PRI_S \notin elements
    /\ Cardinality(elements) >= 2

\* C8 as stated: a non-membership proof the accumulator issues, the empty
\* one included, with its element replaced by a different field element, is
\* rejected by verify_non_membership.
C8_Original ==
    (last.op = "verify_non_membership" /\ last.nproof.element # Fx) => ~last.ok

\* C8 amended: the same, when the proof's g1_a is not the identity of G1
\* (on the empty accumulator g1_a is always the identity).
C8_Tamper ==
    (/\ last.op = "verify_non_membership" /\ last.nproof.element # Fx
     /\ last.nproof.g1_a # G1Identity) =>
        ~last.ok

C8_Witness ==
    /\ last.op = "verify_non_membership" /\ last.nproof.element # Fx
    /\ last.nproof.g1_a # G1Identity
    /\ Cardinality(elements) >= 2

\* C9 as stated: update(x_old, x_new) with both in S and x_old # x_new
\* returns an error and leaves the accumulator as delete(x_old) leaves it:
\* x_old out of S, acc_value the commitment to S without x_old.
C9_Original ==
    (/\ last.op = "update" /\ last.x # last.y
     /\ toField(last.x) \in last.elems0
     /\ toField(last.y) \in last.elems0) =>
        /\ ~last.ok
        /\ toField(last.x) \notin elements
        /\ elements = last.elems0 \ {toField(last.x)}
        /\ acc_value = Commit(last.elems0 \ {toField(last.x)})

\* C9 amended: the same, for toField(x_old) # s.
C9_NonAtomic ==
    (/\ last.op = "update" /\ last.x # last.y
     /\ toField(last.x) \in last.elems0
     /\ toField(last.y) \in last.elems0
     /\ toField(last.x) # PRI_S) =>
        /\ ~last.ok
        /\ toField(last.x) \notin elements
        /\ elements = last.elems0 \ {toField(last.x)}
        /\ acc_value = Commit(last.elems0 \ {toField(last.x)})

C9_Witness ==
    /\ last.op = "update" /\ ~last.ok
    /\ last.err = "Element already in accumulator"
    /\ acc_value # last.acc0

\* C10: add(x) with toField(x) already in S returns an error and leaves
\* acc_value and S as they were.
C10_FailedAdd ==
    (last.op = "add" /\ Fx \in last.elems0) =>
        /\ ~last.ok
        /\ acc_value = last.acc0
        /\ elements = last.elems0

C10_Witness ==
    /\ last.op = "add" /\ ~last.ok
    /\ Cardinality(elements) >= 2

\* C11: delete(x) with toField(x) not in S, never added or already deleted,
\* returns an error and leaves acc_value and S as they were.
C11_FailedDelete ==
    (last.op = "delete" /\ Fx \notin last.elems0) =>
        /\ ~last.ok
        /\ last.err = "Element not in accumulator"
        /\ acc_value = last.acc0
        /\ elements = last.elems0

C11_Witness ==
    /\ last.op = "delete" /\ ~last.ok
    /\ last.err = "Element not in accumulator"
    /\ Cardinality(elements) >= 1
    /\ acc_value # G1Identity

\* C12: a successful update(x_old, x_new) leaves the set (S without x_old)
\* with x_new added, every other member kept; its DeleteProof goes from the
\* acc_value before the call to an intermediate value, its AddProof from
\* that intermediate value to the acc_value after the call, the proofs name
\* the two elements, and both pass their own verify().
C12_Update ==
    (last.op = "update" /\ last.ok) =>
        /\ elements = (last.elems0 \ {toField(last.x)}) \cup {toField(last.y)}
        /\ (last.elems0 \ {toField(last.x)}) \subseteq elements
        /\ last.dproof.old_acc_value = last.acc0
        /\ last.dproof.element = toField(last.x)
        /\ last.aproof.old_acc_value = last.dproof.new_acc_value
        /\ last.aproof.element = toField(last.y)
        /\ last.aproof.new_acc_value = acc_value
        /\ DeleteProof_verify(last.dproof)
        /\ AddProof_verify(last.aproof)

C12_Witness ==
    /\ last.op = "update" /\ last.ok /\ last.x # last.y
    /\ Cardinality(last.elems0) >= 2
    /\ acc_value # G1Identity
    /\ last.dproof.new_acc_value # last.acc0

\* C13: query(x) returns Membership exactly when toField(x) is in S and
\* NonMembership exactly when it is not, never both, and the proof the
\* returned variant carries is accepted by the matching verify function
\* against the current acc_value.
C13_Query ==
    last.op = "query" =>
        /\ last.ok
        /\ last.variant \in {"Membership", "NonMembership"}
        /\ (last.variant = "Membership") <=> (Fx \in elements)
        /\ (last.variant = "NonMembership") <=> (Fx \notin elements)
        /\ (last.variant = "Membership") =>
                verify_membership(Self, last.mproof)
        /\ (last.variant = "NonMembership") =>
                verify_non_membership(Self, last.nproof)

\* C14: query(x) always returns a QueryResult: neither unwrap in it meets
\* an Err, in any reachable state and for any input.
C14_QueryInfallible ==
    last.op = "query" =>
        /\ last.ok
        /\ last.err = ""

\* C15: a membership proof issued by one accumulator is accepted by
\* verify_membership of any accumulator with an equal acc_value, and so of a
\* second accumulator that reached the same element set through another
\* sequence of add, delete and update calls.
C15_Portable ==
    (/\ last.op = "verify_membership_other"
     /\ (other.acc_value = acc_value \/ other.elements = elements)) =>
        last.ok

\* C15 witness: the second accumulator holds the same set after a delete,
\* the first one got there by adds alone, and the proof was accepted.
C15_Witness ==
    /\ last.op = "verify_membership_other" /\ last.ok
    /\ other.elements = elements
    /\ other.removed
    /\ Cardinality(elements) >= 2
    /\ acc_value # G1Identity

\* C16: the witness of the proof prove_membership returns for a member x is
\* the accumulator value of the set without x, g1 raised to the product of
\* (s - e) over the members e other than x.
C16_WitnessValue ==
    (last.op = "prove_membership" /\ last.ok) =>
        /\ Fx \in elements
        /\ last.mproof.element = Fx
        /\ last.mproof.witness = Commit(elements \ {Fx})

\* C16 witness: a proof for a member of a set of two or more, whose witness
\* is neither the identity nor the accumulator value itself.
C16_Witness ==
    /\ last.op = "prove_membership" /\ last.ok
    /\ Cardinality(elements) >= 2
    /\ last.mproof.witness # G1Identity
    /\ last.mproof.witness # acc_value

\* C17: delete(x) for a member x whose field value equals s passes the
\* membership check, fails with the inverse error, and leaves acc_value and
\* the element set as they were, x still a member.
C17_DeleteNoInverse ==
    (last.op = "delete" /\ Fx \in last.elems0 /\ Fx = PRI_S) =>
        /\ ~last.ok
        /\ last.err = "Failed to compute inverse"
        /\ acc_value = last.acc0
        /\ elements = last.elems0
        /\ Fx \in elements

\* C17 witness: the delete failed on the inverse in a set of two or more.
C17_Witness ==
    /\ last.op = "delete" /\ ~last.ok
    /\ last.err = "Failed to compute inverse"
    /\ Fx = PRI_S
    /\ Fx \in last.elems0
    /\ Cardinality(last.elems0) >= 2

\* C18: update(x_old, x_new) with toField(x_old) not in the set returns the
\* not-found error without running the add: acc_value and the element set
\* are after the call what they were before it, x_new not inserted.
C18_UpdateMissing ==
    (last.op = "update" /\ toField(last.x) \notin last.elems0) =>
        /\ ~last.ok
        /\ last.err = "Element not in accumulator"
        /\ acc_value = last.acc0
        /\ elements = last.elems0
        /\ (toField(last.y) \in elements <=> toField(last.y) \in last.elems0)

\* C18 witness: a failed update on a non-empty set that holds neither the
\* old nor the new element.
C18_Witness ==
    /\ last.op = "update" /\ ~last.ok
    /\ last.err = "Element not in accumulator"
    /\ toField(last.x) \notin last.elems0
    /\ toField(last.y) \notin elements
    /\ last.x # last.y
    /\ elements # {}
    /\ acc_value # G1Identity

\* C20 as stated: a non-membership proof issued for x is rejected by
\* verify_non_membership against the acc_value that the following successful
\* add(x) leaves.
C20_Original ==
    (last.op = "add" /\ last.ok /\ last.prior.op = "prove_non_membership") =>
        ~verify_non_membership(Self, last.prior.nproof)

\* C20 amended: the same, when no member's field value was s before the add
\* (acc_value was not the identity) and s - toField(x) # 1.
C20_StaleNonMembership ==
    (/\ last.op = "add" /\ last.ok /\ last.prior.op = "prove_non_membership"
     /\ PRI_S \notin last.elems0
     /\ FSub(PRI_S, Fx) # 1) =>
        /\ last.prior.nproof.element = Fx
        /\ verify_non_membership(
               [acc_value |-> last.acc0, elements |-> last.elems0],
               last.prior.nproof)
        /\ ~verify_non_membership(Self, last.prior.nproof)

\* C20 witness: the proof was issued on a non-empty set, then x was added.
C20_Witness ==
    /\ last.op = "add" /\ last.ok /\ last.prior.op = "prove_non_membership"
    /\ PRI_S \notin last.elems0
    /\ FSub(PRI_S, Fx) # 1
    /\ last.elems0 # {}
    /\ last.prior.nproof.g1_a # G1Identity
    /\ acc_value # G1Identity

\* The field values the inputs map to: the members an accumulator can hold.
FieldInputs == {toField(x) : x \in Inputs}

\* C19 as stated: prove_intersection / prove_union return an accumulator
\* that commits to exactly S1 \cap S2 / S1 \cup S2 with a proof the static
\* verifier accepts, and the verifier rejects the accumulator value of any
\* other set in its place.
C19_Original ==
    /\ last.op = "prove_intersection" =>
        /\ last.ok /\ last.rel.accepted
        /\ last.rel.acc.elements = elements \cap other.elements
        /\ last.rel.acc.acc_value = Commit(elements \cap other.elements)
        /\ \A T \in SUBSET FieldInputs :
               T # elements \cap other.elements =>
                   ~verify_intersection(acc_value, other.acc_value,
                                        Commit(T), last.rel.intersection)
    /\ last.op = "prove_union" =>
        /\ last.ok /\ last.rel.accepted
        /\ last.rel.acc.elements = elements \cup other.elements
        /\ last.rel.acc.acc_value = Commit(elements \cup other.elements)
        /\ \A T \in SUBSET FieldInputs :
               T # elements \cup other.elements =>
                   ~verify_union(acc_value, other.acc_value,
                                 Commit(T), last.rel.union)

\* C19 amended: the returned accumulator commits to exactly the intersection
\* / union and is accepted, and the verifier accepts the accumulator value
\* of a set in its place exactly when that value equals the true one.
C19_Relational ==
    /\ last.op = "prove_intersection" =>
        /\ last.ok /\ last.rel.accepted
        /\ last.rel.acc.elements = elements \cap other.elements
        /\ last.rel.acc.acc_value = Commit(elements \cap other.elements)
        /\ \A T \in SUBSET FieldInputs :
               verify_intersection(acc_value, other.acc_value,
                                   Commit(T), last.rel.intersection)
                   <=> Commit(T) = Commit(elements \cap other.elements)
    /\ last.op = "prove_union" =>
        /\ last.ok /\ last.rel.accepted
        /\ last.rel.acc.elements = elements \cup other.elements
        /\ last.rel.acc.acc_value = Commit(elements \cup other.elements)
        /\ \A T \in SUBSET FieldInputs :
               verify_union(acc_value, other.acc_value,
                            Commit(T), last.rel.union)
                   <=> Commit(T) = Commit(elements \cup other.elements)

\* C19 witness: two overlapping sets, neither inside the other, whose
\* intersection proof is accepted and is rejected for a strict subset of
\* the intersection.
C19_Witness ==
    /\ last.op = "prove_intersection" /\ last.ok /\ last.rel.accepted
    /\ elements \cap other.elements # {}
    /\ elements \ other.elements # {}
    /\ other.elements \ elements # {}
    /\ \E T \in SUBSET (elements \cap other.elements) :
           /\ T # elements \cap other.elements
           /\ ~verify_intersection(acc_value, other.acc_value,
                                   Commit(T), last.rel.intersection)

\* C21: for a member x whose delete can succeed (toField(x) # s),
\* update(x, x) succeeds, the delete step having removed x before the add
\* step looks for a duplicate, and acc_value and the element set are after
\* the call what they were before it.
C21_SelfUpdate ==
    (/\ last.op = "update" /\ last.x = last.y
     /\ Fx \in last.elems0
     /\ Fx # PRI_S) =>
        /\ last.ok
        /\ acc_value = last.acc0
        /\ elements = last.elems0
        /\ last.dproof.element = Fx
        /\ last.aproof.element = Fx
        /\ last.aproof.new_acc_value = last.dproof.old_acc_value

\* C21 witness: a self-update on a set of two or more whose delete step
\* changed acc_value and whose add step changed it back.
C21_Witness ==
    /\ last.op = "update" /\ last.ok /\ last.x = last.y
    /\ Fx \in last.elems0
    /\ Cardinality(last.elems0) >= 2
    /\ acc_value # G1Identity
    /\ last.dproof.new_acc_value # last.acc0
    /\ acc_value = last.acc0

=============================================================================
